---- MODULE Spec2Model ----
(***************************************************************************)
(* Session / event backend and page of the proctoring application.         *)
(*                                                                         *)
(* The two collections (sessions, events) are the shared state.  Every     *)
(* route handler is an async function: it runs from one `await` to the     *)
(* next without interruption, and other requests may run in between.  A    *)
(* request is therefore a small process whose pc names the store operation *)
(* it is waiting for; one action of the model is one store operation       *)
(* together with the handler code that follows it up to the next await.    *)
(*                                                                         *)
(* The repository holds two variants of the session routes: the one in     *)
(* routes/sessionRoutes.js ("legacy") and the one that follows the event   *)
(* routes in routes/eventRoutes.js ("rich").  A server mounts one of them; *)
(* the variable `variant` says which.                                      *)
(*                                                                         *)
(* The page (frontend/src/App.jsx) is the variable `ui`: its React state,  *)
(* its interval timers, the ticks awaiting an inference and its fetches.   *)
(* PageSpec, DetectorSpec and LoopSpec run the page against the server.    *)
(***************************************************************************)
EXTENDS Integers, Sequences, FiniteSets, Bags, TLC

\* ------------------------------------------------------------------ bounds
MaxTime == 1          \* the clock runs 0..MaxTime
MaxRequests == 3      \* requests received in one behaviour
MaxClicks == 2        \* clicks on the page's button in one behaviour
MaxLoopClicks == 3    \* the same where a session is started again
MaxTicks == 2         \* timer callbacks of the page in one behaviour

\* --------------------------------------------------------------- constants
NULL == "null"        \* an absent string field (undefined)
NoDate == -1          \* an absent Date field (undefined)
NoId == -1            \* a request without sessionId
UnknownId == 0        \* a sessionId no Start ever returned

Variants == {"rich", "legacy"}

\* models/Event.js: type enum
EventTypes ==
  {"session_start", "session_end", "session_pause", "session_resume",
   "no_face", "multiple_faces", "face_detected", "face_lost",
   "suspicious_object", "forbidden_object",
   "error", "warning", "info",
   "tab_switch", "window_resize", "copy_paste", "print_screen",
   "custom"}

\* models/Event.js: severity enum and default
Severities == {"info", "warning", "error", "critical"}
SeverityDefault == "info"

\* models/Event.js: source enum and default
Sources == {"system", "face_detection", "object_detection", "user_action", "api"}
SourceDefault == "system"

\* models/Session.js: status enum, default duration
SessionStatuses == {"active", "completed", "terminated", "error"}
DurationDefault == 0

\* ---------------------------------------------------------------- variables
VARIABLES
  variant,    \* which session routes the server mounts
  now,        \* the server clock (Date.now), in seconds
  nextUuid,   \* source of uuidv4()
  sessions,   \* the sessions collection: sessionId -> document
  events,     \* the events collection, in insertion order; _id = index
  reqs,       \* the requests being handled: slot -> request
  received,   \* number of requests received so far
  last,       \* the request the last step answered, with its response (or
              \* what the detector returned to the tick step just taken)
  issued,     \* the sessionIds the clients know: those Start has returned
  ui,         \* the page (frontend/src/App.jsx): its state, timers, fetches
  client,     \* "any": clients send any requests; "scenario": see ScenarioSpec
  trace       \* the scenario's client only: its responses, oldest first

vars ==
  <<variant, now, nextUuid, sessions, events, reqs, received, last, issued,
    ui, client, trace>>

\* Two handlers run at a time
Slots == {1, 2}

\* ------------------------------------------------------------------ helpers
\* The metadata bag of a session: the keys the clients and the routes use,
\* NULL for a key the bag does not hold
NoMetadata == [userAgent |-> NULL, endReason |-> NULL, endData |-> NULL]

\* The paths of SessionSchema.  A stored document is shown with the field
\* lastActivity as well (NoDate: the document has no such field).
SessionPaths ==
  {"sessionId", "candidateName", "examId", "startTime", "endTime", "status",
   "metadata", "events", "duration"}

\* new Session({...}) of the session routes, with the schema defaults applied
NewSession(sessionId, candidateName, date, metadata) ==
  [sessionId |-> sessionId, candidateName |-> candidateName,
   status |-> "active", startTime |-> date, endTime |-> NoDate,
   duration |-> DurationDefault, events |-> <<>>,
   metadata |-> [NoMetadata EXCEPT !.userAgent = metadata],
   lastActivity |-> NoDate]

\* $set of one path by findByIdAndUpdate: the schema is strict, so Mongoose
\* drops a path that is not in the schema from the update
StrictSet(doc, path, value) ==
  IF path \in SessionPaths THEN [doc EXCEPT ![path] = value] ELSE doc

\* (mutant of uuidv4: the value issued last is issued again)
MutUuidv4Repeats == IF nextUuid > 1 THEN nextUuid - 1 ELSE nextUuid

\* uuidv4(): a value never issued before
uuidv4 == nextUuid

\* An Event document as the schema builds it at time date: absent fields
\* get their defaults (timestamp: Date.now, severity: info, source: system)
EventDoc(sessionId, type, timestamp, severity, source, date) ==
  [sessionId |-> sessionId, type |-> type,
   timestamp |-> IF timestamp = NoDate THEN date ELSE timestamp,
   severity |-> IF severity = NULL THEN SeverityDefault ELSE severity,
   source |-> IF source = NULL THEN SourceDefault ELSE source]

\* Mongoose validation of an Event document on create / insertMany:
\* required sessionId and type, the three enums
EventValid(doc) ==
  /\ doc.sessionId # NoId
  /\ doc.type \in EventTypes
  /\ doc.severity \in Severities
  /\ doc.source \in Sources

\* Query parameters: an absent limit, a read that has not returned yet
NoLimit == -1
NotRead == -1

\* The session document of a request that found none
NoSession == NewSession(NoId, NULL, NoDate, NULL)

\* The request of an idle slot
IdleReq ==
  [op |-> "none", pc |-> "idle", sessionId |-> NoId, candidateName |-> NULL,
   type |-> NULL, source |-> NULL, severity |-> NULL, timestamp |-> NoDate,
   date |-> NoDate, code |-> 0, prior |-> NULL, session |-> NoSession,
   result |-> <<>>, eventId |-> 0, seen |-> NULL, fault |-> "none",
   array |-> TRUE, batch |-> <<>>, eventIds |-> <<>>, limit |-> NoLimit, offset |-> 0,
   total |-> NotRead, page |-> NotRead, hasMore |-> FALSE,
   types |-> <<>>, severities |-> <<>>, startDate |-> NoDate,
   endDate |-> NoDate, metadata |-> NULL, endReason |-> NULL,
   success |-> NULL, faces |-> 0, faceRatio |-> 0, predictions |-> <<>>]

Free(r) == reqs[r].pc = "idle"

\* Requests are received in the lowest free slot (the slots are alike),
\* MaxRequests of them when clients send any requests
Accepts(r) ==
  /\ Free(r) /\ \A o \in Slots : o < r => ~Free(o)
  /\ client \in {"any", "query", "metadata"} => received < MaxRequests

\* A fetch of the page on its way to the server: the body of Start carries
\* no sessionId
Msg(op, sessionId, type) == [op |-> op, sessionId |-> sessionId, type |-> type]

MsgOf(q) == Msg(q.op, IF q.op = "Start" THEN NoId ELSE q.sessionId, q.type)

\* What the page reads of a response: response.ok (from code), data.success
\* and, from Start, data.sessionId
Reply(op, sessionId, code, success) ==
  [op |-> op, sessionId |-> sessionId, code |-> code, success |-> success]

ReplyOf(d) ==
  Reply(d.op, IF d.op = "Start" /\ d.code # 201 THEN NoId ELSE d.sessionId,
        d.code, d.success)

\* The page's fetch for request q has reached the server
Sent(u, r, q) ==
  IF client = "frontend" /\ Free(r)
    THEN [u EXCEPT !.outbox = @ (-) SetToBag({MsgOf(q)})]
    ELSE u

\* The response d travels to the page: startSession and endSession await
\* theirs, logEvent does not read its response
Returned(u, d) ==
  IF client = "frontend" /\ d.op \in {"Start", "End"}
    THEN [u EXCEPT !.inbox = @ (+) SetToBag({ReplyOf(d)})]
    ELSE u

NewReq(op) == [IdleReq EXCEPT !.op = op]

\* The success field of a response body: "true", "false", or "absent".
\* The event routes and the rich session routes Start and End set it in
\* every body; the legacy Start and End only in the 2xx body; Get never.
Success(v, op, code) ==
  CASE op = "Get" -> "absent"
    [] op \in {"Start", "End"} /\ v = "legacy" ->
         IF code \in {200, 201} THEN "true" ELSE "absent"
    [] OTHER -> IF code \in {200, 201} THEN "true" ELSE "false"

\* res.status(code).json(...): the handler of slot r ends
Respond(r, q, code) ==
  LET d == [q EXCEPT !.pc = "done", !.code = code, !.date = NoDate,
                     !.success = Success(variant, q.op, code)]
  IN
  /\ reqs' = [reqs EXCEPT ![r] = IdleReq]
  /\ last' = d
  /\ issued' = IF d.op = "Start" /\ code = 201 THEN issued \cup {d.sessionId}
                                               ELSE issued
  /\ trace' = IF client = "scenario" THEN Append(trace, d) ELSE trace
  /\ ui' = Returned(Sent(ui, r, q), d)
  /\ UNCHANGED client

\* The handler of slot r goes on to wait for its next store operation
Continue(r, q) ==
  /\ reqs' = [reqs EXCEPT ![r] = q]
  /\ last' = IdleReq
  /\ ui' = Sent(ui, r, q)
  /\ UNCHANGED <<issued, client, trace>>

\* ---------------------------------------------------------------- the clock
Tick ==
  /\ now < MaxTime
  /\ now' = now + 1
  /\ last' = IdleReq
  /\ UNCHANGED <<variant, nextUuid, sessions, events, reqs, received, issued,
                  ui, client, trace>>

\* -------------------------------------------------------------------- Start
\* POST /api/session (rich), POST /api/session/start (legacy): up to the
\* first await
CandidateNames == {"Alice", NULL}

\* (mutant of StartReceive: the check of candidateName is dropped)
MutStartReceiveUnchecked(r, candidateName, metadata) ==
  /\ Accepts(r)
  /\ received' = received + 1
  /\ UNCHANGED <<variant, now, sessions, events>>
  /\ Continue(r, [NewReq("Start") EXCEPT !.candidateName = candidateName,
                     !.metadata = metadata,
                     !.pc = "save", !.sessionId = uuidv4, !.date = now])
  /\ nextUuid' = nextUuid + 1

\* The metadata Start stores: the rich routes take req.body.metadata, the
\* legacy routes pass none to new Session
StartMetadata(v, metadata) == IF v = "rich" THEN metadata ELSE NULL

StartReceive(r, candidateName, metadata) ==
  /\ Accepts(r)
  /\ received' = received + 1
  /\ UNCHANGED <<variant, now, sessions, events>>
  /\ LET q == [NewReq("Start") EXCEPT !.candidateName = candidateName,
                                      !.metadata = metadata]
     IN
     IF candidateName = NULL
       THEN /\ Respond(r, q, 400)
            /\ UNCHANGED nextUuid
       ELSE /\ Continue(r, [q EXCEPT !.pc = "save", !.sessionId = uuidv4,
                                     !.date = now])
            /\ nextUuid' = nextUuid + 1

\* await session.save(); then the session_start document is built
StartSave(r) ==
  LET q == reqs[r] IN
  /\ q.op = "Start" /\ q.pc = "save"
  /\ \/ /\ sessions' = [s \in DOMAIN sessions \cup {q.sessionId} |->
                          IF s = q.sessionId
                            THEN NewSession(q.sessionId, q.candidateName, q.date,
                                            StartMetadata(variant, q.metadata))
                            ELSE sessions[s]]
        /\ Continue(r, [q EXCEPT !.pc = "event", !.date = now])
     \/ /\ Respond(r, [q EXCEPT !.fault = q.pc], 500)
        /\ UNCHANGED sessions
  /\ UNCHANGED <<variant, now, nextUuid, events, received>>

\* What the handler answers when the write of its lifecycle event throws:
\* the rich routes catch and log it, the legacy routes let it reach the
\* handler's catch
LifecycleEventFailureCode(v, ok) == IF v = "rich" THEN ok ELSE 500

\* await Event.create({sessionId, type: 'session_start', details})
StartEvent(r) ==
  LET q == reqs[r] IN
  /\ q.op = "Start" /\ q.pc = "event"
  /\ \/ /\ events' = Append(events,
                       EventDoc(q.sessionId, "session_start", NoDate, NULL, NULL,
                                q.date))
        /\ Respond(r, q, 201)
     \/ /\ Respond(r, [q EXCEPT !.fault = q.pc],
                   LifecycleEventFailureCode(variant, 201))
        /\ UNCHANGED events
  /\ UNCHANGED <<variant, now, nextUuid, sessions, received>>

\* ---------------------------------------------------------------------- End
\* The sessionId values a client can send: the ids Start has returned, an
\* id no session has, or none
SessionIdInputs == issued \cup {UnknownId, NoId}

\* The filter of End's findOneAndUpdate: the rich routes match on sessionId
\* alone, the legacy routes on sessionId and status 'active'
EndFilter(v, doc) == IF v = "rich" THEN TRUE ELSE doc.status = "active"

\* The status End writes.  findOneAndUpdate runs no schema validators, so
\* the legacy value is stored although it is outside the schema's enum.
EndStatus(v) == IF v = "rich" THEN "completed" ELSE "ended"

\* (mutant of EndUpdate: ending an ended session makes it active again)
MutEndUpdateToggles(v, doc, date) ==
  [doc EXCEPT !.status = IF doc.status = "active" THEN EndStatus(v) ELSE "active",
              !.endTime = date]

\* The update of End's findOneAndUpdate, applied to the matching document
EndUpdate(v, doc, date) ==
  [doc EXCEPT !.status = EndStatus(v), !.endTime = date]

\* (mutant of EndMetadata: the update replaces the metadata bag)
MutEndMetadataReplaces(v, metadata, endReason, endData) ==
  [NoMetadata EXCEPT !.endReason = IF endReason = NULL THEN "user_ended" ELSE endReason,
                     !.endData = IF endData = NULL THEN "{}" ELSE endData]

\* The metadata after End's update: the rich routes $set the two dotted
\* paths metadata.endReason (default 'user_ended') and metadata.endData
\* (default {}); the legacy routes do not touch metadata
EndMetadata(v, metadata, endReason, endData) ==
  IF v = "rich"
    THEN [metadata EXCEPT
            !.endReason = IF endReason = NULL THEN "user_ended" ELSE endReason,
            !.endData = IF endData = NULL THEN "{}" ELSE endData]
    ELSE metadata

\* POST /api/session/end: up to the first await.  `new Date()` for endTime
\* is evaluated while the arguments of findOneAndUpdate are built.
EndReceive(r, sessionId, endReason, metadata) ==
  /\ Accepts(r)
  /\ received' = received + 1
  /\ LET q == [NewReq("End") EXCEPT !.sessionId = sessionId,
                !.endReason = endReason, !.metadata = metadata]
     IN
     IF sessionId = NoId
       THEN Respond(r, q, 400)
       ELSE Continue(r, [q EXCEPT !.pc = "update", !.date = now,
                                  !.seen = IF sessionId \in DOMAIN sessions
                                             THEN sessions[sessionId].status
                                             ELSE NULL])
  /\ UNCHANGED <<variant, now, nextUuid, sessions, events>>

\* await Session.findOneAndUpdate(filter, update, {new: true}): one atomic
\* conditional write of the store; then the session_end document is built
EndUpdateStep(r) ==
  LET q == reqs[r]
      s == q.sessionId
      match == s \in DOMAIN sessions /\ EndFilter(variant, sessions[s])
  IN
  /\ q.op = "End" /\ q.pc = "update"
  /\ \/ /\ match
        /\ sessions' =
             [sessions EXCEPT ![s] =
                [EndUpdate(variant, @, q.date) EXCEPT
                   !.metadata = EndMetadata(variant, @, q.endReason, q.metadata)]]
        /\ Continue(r, [q EXCEPT !.pc = "event", !.prior = sessions[s].status,
                                 !.session = sessions'[s], !.date = now])
     \/ /\ ~match
        /\ UNCHANGED sessions
        /\ Respond(r, [q EXCEPT !.prior = IF s \in DOMAIN sessions
                                            THEN sessions[s].status ELSE NULL],
                   404)
     \/ /\ UNCHANGED sessions
        /\ Respond(r, [q EXCEPT !.fault = q.pc], 500)
  /\ UNCHANGED <<variant, now, nextUuid, events, received>>

\* await Event.create({sessionId, type: 'session_end', details})
EndEvent(r) ==
  LET q == reqs[r] IN
  /\ q.op = "End" /\ q.pc = "event"
  /\ \/ /\ events' = Append(events,
                       EventDoc(q.sessionId, "session_end", NoDate, NULL, NULL,
                                q.date))
        /\ Respond(r, q, 200)
     \/ /\ Respond(r, [q EXCEPT !.fault = q.pc],
                   LifecycleEventFailureCode(variant, 200))
        /\ UNCHANGED events
  /\ UNCHANGED <<variant, now, nextUuid, sessions, received>>

\* ---------------------------------------------------------------------- Get
\* (mutant of QueryMatches: endDate is an exclusive bound and the severity
\* filter is ignored)
MutQueryMatchesExclusiveEnd(q, e) ==
  /\ e.sessionId = q.sessionId
  /\ q.types # <<>> => \E i \in DOMAIN q.types : q.types[i] = e.type
  /\ q.startDate # NoDate => e.timestamp >= q.startDate
  /\ q.endDate # NoDate => e.timestamp < q.endDate

\* A filter value of the query string: none (<<>>), one value (compared
\* for equality), or a list ($in)
Selects(values, v) ==
  \/ values = <<>>
  \/ \E i \in DOMAIN values : values[i] = v

\* The filter of a find: sessionId, then type, severity and the timestamp
\* range ($gte startDate, $lte endDate) when the request names them (Get's
\* filter is {sessionId})
QueryMatches(q, e) ==
  /\ e.sessionId = q.sessionId
  /\ Selects(q.types, e.type)
  /\ Selects(q.severities, e.severity)
  /\ q.startDate # NoDate => e.timestamp >= q.startDate
  /\ q.endDate # NoDate => e.timestamp <= q.endDate

\* The _ids of the events the filter of request q selects
Matching(q) == {i \in 1..Len(events) : QueryMatches(q, events[i])}

\* (mutant of SortedDesc: the sort is ascending)
MutSortedAsc(ids) ==
  {o \in [1..Cardinality(ids) -> ids] :
     /\ \A i, j \in DOMAIN o : i # j => o[i] # o[j]
     /\ \A i, j \in DOMAIN o :
          i < j => events[o[i]].timestamp <= events[o[j]].timestamp}

\* The results .sort({timestamp: -1}) can give for a set of event _ids:
\* every order of them with non-increasing timestamps (the order of equal
\* timestamps is the store's choice)
SortedDesc(ids) ==
  {o \in [1..Cardinality(ids) -> ids] :
     /\ \A i, j \in DOMAIN o : i # j => o[i] # o[j]
     /\ \A i, j \in DOMAIN o :
          i < j => events[o[i]].timestamp >= events[o[j]].timestamp}

\* GET /api/session/:sessionId: the handler reads nothing shared before its
\* first store operation, so its receipt is taken together with
\* await Session.findOne({sessionId})
GetFind(r, sessionId) ==
  LET q == [NewReq("Get") EXCEPT !.sessionId = sessionId] IN
  /\ Accepts(r)
  /\ received' = received + 1
  /\ sessionId # NoId
  /\ \/ /\ sessionId \in DOMAIN sessions
        /\ Continue(r, [q EXCEPT !.pc = "events", !.session = sessions[sessionId]])
     \/ /\ sessionId \notin DOMAIN sessions
        /\ Respond(r, q, 404)
     \/ Respond(r, [q EXCEPT !.fault = "find"], 500)
  /\ UNCHANGED <<variant, now, nextUuid, sessions, events>>

\* await Event.find({sessionId}).sort({timestamp: -1}); res.json
GetEvents(r) ==
  LET q == reqs[r] IN
  /\ q.op = "Get" /\ q.pc = "events"
  /\ \/ \E o \in SortedDesc(Matching(q)) :
          Respond(r, [q EXCEPT !.result = o], 200)
     \/ Respond(r, [q EXCEPT !.fault = q.pc], 500)
  /\ UNCHANGED <<variant, now, nextUuid, sessions, events, received>>

\* ------------------------------------------------------------------- LogOne
\* eventRoutes.js, destructuring defaults of the request body
LogOneSeverityDefault == "info"
LogOneSourceDefault == "frontend"

\* The bodies a client sends besides sessionId: type, source, severity,
\* timestamp (absent: NULL, NoDate)
LogOneBodies ==
  {<<"no_face", NULL, NULL, NoDate>>,
   <<"no_face", "system", NULL, NoDate>>,
   <<"no_face", "system", "warning", 0>>,
   <<"lookaway", "system", NULL, NoDate>>,
   <<NULL, NULL, NULL, NoDate>>}

\* The document LogOne hands to Event.create
LogOneDoc(q) ==
  EventDoc(q.sessionId, q.type,
           IF q.timestamp = NoDate THEN q.date ELSE q.timestamp,
           IF q.severity = NULL THEN LogOneSeverityDefault ELSE q.severity,
           IF q.source = NULL THEN LogOneSourceDefault ELSE q.source,
           q.date)

\* (mutant of LogOneFind: the event is created before the session is
\* looked up)
MutLogOneFindAfterCreate(r, sessionId, body) ==
  LET q == [NewReq("LogOne") EXCEPT !.sessionId = sessionId, !.type = body[1],
              !.source = body[2], !.severity = body[3], !.timestamp = body[4],
              !.date = now]
  IN
  /\ Accepts(r)
  /\ received' = received + 1
  /\ IF sessionId = NoId \/ q.type = NULL
       THEN Respond(r, q, 400) /\ UNCHANGED events
       ELSE \/ /\ sessionId \in DOMAIN sessions
               /\ Continue(r, [q EXCEPT !.pc = "create"])
               /\ UNCHANGED events
            \/ /\ sessionId \notin DOMAIN sessions
               /\ events' = Append(events, LogOneDoc(q))
               /\ Respond(r, q, 404)
  /\ UNCHANGED <<variant, now, nextUuid, sessions>>

\* POST /api/events: the validation of the body, and
\* await Session.findOne({sessionId}); the handler reads nothing shared
\* before this first store operation, so its receipt is taken together with it
LogOneFind(r, sessionId, body) ==
  LET q == [NewReq("LogOne") EXCEPT !.sessionId = sessionId, !.type = body[1],
              !.source = body[2], !.severity = body[3], !.timestamp = body[4]]
  IN
  /\ Accepts(r)
  /\ received' = received + 1
  /\ IF sessionId = NoId \/ q.type = NULL
       THEN Respond(r, q, 400)
       ELSE \/ /\ sessionId \in DOMAIN sessions
               /\ Continue(r, [q EXCEPT !.pc = "create", !.date = now])
            \/ /\ sessionId \notin DOMAIN sessions
               /\ Respond(r, q, 404)
            \/ Respond(r, [q EXCEPT !.fault = "find"], 500)
  /\ UNCHANGED <<variant, now, nextUuid, sessions, events>>

\* await Event.create({...}): validation, then the insert
LogOneCreate(r) ==
  LET q == [reqs[r] EXCEPT !.prior = sessions[reqs[r].sessionId].status]
      doc == LogOneDoc(q)
  IN
  /\ reqs[r].op = "LogOne" /\ reqs[r].pc = "create"
  /\ \/ /\ EventValid(doc)
        /\ events' = Append(events, doc)
        /\ Continue(r, [q EXCEPT !.pc = "link", !.eventId = Len(events) + 1,
                                 !.date = now])
     \/ /\ ~EventValid(doc)
        /\ UNCHANGED events
        /\ Respond(r, q, 500)
     \/ /\ UNCHANGED events
        /\ Respond(r, [q EXCEPT !.fault = q.pc], 500)
  /\ UNCHANGED <<variant, now, nextUuid, sessions, received>>

\* await Session.findByIdAndUpdate(session._id, {$push: {events}, $set:
\* {lastActivity}}); res.status(201)
LogOneLink(r) ==
  LET q == reqs[r]
      s == q.sessionId
  IN
  /\ q.op = "LogOne" /\ q.pc = "link"
  /\ \/ /\ sessions' =
             [sessions EXCEPT ![s] =
                StrictSet([@ EXCEPT !.events = Append(@, q.eventId)],
                          "lastActivity", q.date)]
        /\ Respond(r, q, 201)
     \/ /\ UNCHANGED sessions
        /\ Respond(r, [q EXCEPT !.fault = q.pc], 500)
  /\ UNCHANGED <<variant, now, nextUuid, events, received>>

\* ----------------------------------------------------------------- LogBatch
\* eventRoutes.js, the defaults of the batch's map
LogBatchSeverityDefault == "info"
LogBatchSourceDefault == "frontend"

\* The elements a client puts in a batch: type, source, and a sessionId
\* field of their own (NoId: none)
Valid == [type |-> "no_face", source |-> "system", sessionId |-> NoId]
Foreign == [type |-> "face_lost", source |-> "system", sessionId |-> UnknownId]
Unsourced == [type |-> "no_face", source |-> NULL, sessionId |-> NoId]
Untyped == [type |-> "lookaway", source |-> "system", sessionId |-> NoId]

\* The events field of the bodies a client sends: array says whether it is
\* a list at all (an absent field, an object with one entry)
BatchInputs ==
  {[array |-> FALSE, events |-> <<>>],
   [array |-> FALSE, events |-> <<Valid>>],
   [array |-> TRUE, events |-> <<>>],
   [array |-> TRUE, events |-> <<Valid>>],
   [array |-> TRUE, events |-> <<Valid, Foreign>>],
   [array |-> TRUE, events |-> <<Valid, Untyped>>],
   [array |-> TRUE, events |-> <<Unsourced>>]}

\* (mutant of LogBatchFind: the Array.isArray check is dropped)
MutLogBatchFindAnyEvents(r, sessionId, body) ==
  LET q == [NewReq("LogBatch") EXCEPT !.sessionId = sessionId,
              !.array = body.array, !.batch = body.events]
  IN
  /\ Accepts(r)
  /\ received' = received + 1
  /\ IF sessionId = NoId \/ Len(body.events) = 0
       THEN Respond(r, q, 400)
       ELSE \/ /\ sessionId \in DOMAIN sessions
               /\ Continue(r, [q EXCEPT !.pc = "insert", !.date = now])
            \/ /\ sessionId \notin DOMAIN sessions
               /\ Respond(r, q, 404)
  /\ UNCHANGED <<variant, now, nextUuid, sessions, events>>

\* POST /api/events/batch: the validation of the body, and
\* await Session.findOne({sessionId}) (taken together as in LogOneFind)
LogBatchFind(r, sessionId, body) ==
  LET q == [NewReq("LogBatch") EXCEPT !.sessionId = sessionId,
              !.array = body.array, !.batch = body.events]
  IN
  /\ Accepts(r)
  /\ received' = received + 1
  /\ IF sessionId = NoId \/ ~body.array \/ Len(body.events) = 0
       THEN Respond(r, q, 400)
       ELSE \/ /\ sessionId \in DOMAIN sessions
               /\ Continue(r, [q EXCEPT !.pc = "insert", !.date = now])
            \/ /\ sessionId \notin DOMAIN sessions
               /\ Respond(r, q, 404)
            \/ Respond(r, [q EXCEPT !.fault = "find"], 500)
  /\ UNCHANGED <<variant, now, nextUuid, sessions, events>>

\* (mutant of LogBatchDocs: an element's own sessionId is kept)
MutLogBatchDocsOwnId(q) ==
  [i \in DOMAIN q.batch |->
     EventDoc(IF q.batch[i].sessionId = NoId THEN q.sessionId
                                             ELSE q.batch[i].sessionId,
              q.batch[i].type, q.date, LogBatchSeverityDefault,
              IF q.batch[i].source = NULL THEN LogBatchSourceDefault
                                          ELSE q.batch[i].source,
              q.date)]

\* eventsWithTimestamps: the request's sessionId replaces the element's own
LogBatchDocs(q) ==
  [i \in DOMAIN q.batch |->
     EventDoc(q.sessionId, q.batch[i].type, q.date, LogBatchSeverityDefault,
              IF q.batch[i].source = NULL THEN LogBatchSourceDefault
                                          ELSE q.batch[i].source,
              q.date)]

\* The documents Event.insertMany sends to the store (ordered, the
\* default): every document is validated first, and one that fails keeps
\* all of them back
InsertManyAccepted(docs) ==
  IF \A i \in DOMAIN docs : EventValid(docs[i]) THEN docs ELSE <<>>

\* await Event.insertMany(eventsWithTimestamps): the validation, then the
\* store's ordered insert, which can fail after a prefix of the documents
LogBatchInsert(r) ==
  LET q == [reqs[r] EXCEPT !.prior = sessions[reqs[r].sessionId].status]
      docs == LogBatchDocs(q)
      sent == InsertManyAccepted(docs)
      Ids(k) == [i \in 1..k |-> Len(events) + i]
  IN
  /\ reqs[r].op = "LogBatch" /\ reqs[r].pc = "insert"
  /\ \/ /\ sent = docs
        /\ events' = events \o docs
        /\ Continue(r, [q EXCEPT !.pc = "link", !.eventIds = Ids(Len(docs)),
                                 !.date = now])
     \/ /\ sent # docs
        /\ events' = events \o sent
        /\ Respond(r, [q EXCEPT !.eventIds = Ids(Len(sent))], 500)
     \/ /\ sent = docs
        /\ \E k \in 0..(Len(docs) - 1) :
             /\ events' = events \o SubSeq(docs, 1, k)
             /\ Respond(r, [q EXCEPT !.fault = "insert", !.eventIds = Ids(k)], 500)
  /\ UNCHANGED <<variant, now, nextUuid, sessions, received>>

\* await Session.findByIdAndUpdate(session._id, {$push: {events: {$each}},
\* $set: {lastActivity}}); res.status(201)
LogBatchLink(r) ==
  LET q == reqs[r]
      s == q.sessionId
  IN
  /\ q.op = "LogBatch" /\ q.pc = "link"
  /\ \/ /\ sessions' =
             [sessions EXCEPT ![s] =
                StrictSet([@ EXCEPT !.events = @ \o q.eventIds],
                          "lastActivity", q.date)]
        /\ Respond(r, q, 201)
     \/ /\ UNCHANGED sessions
        /\ Respond(r, [q EXCEPT !.fault = q.pc], 500)
  /\ UNCHANGED <<variant, now, nextUuid, events, received>>

\* ----------------------------------------------------------- QueryBySession
\* eventRoutes.js, default of the limit query parameter
QueryLimitDefault == 100

LimitInputs == {NoLimit, 1}
OffsetInputs == {0, 1}

\* The filters of the query string: type, severity, startDate, endDate
NoFilter ==
  [types |-> <<>>, severities |-> <<>>, startDate |-> NoDate, endDate |-> NoDate]

\* .skip(offset).limit(limit) of a sorted result; the store takes a limit
\* of 0 as no limit
Page(o, offset, limit) ==
  LET rest == SubSeq(o, offset + 1, Len(o)) IN
  IF limit = 0 \/ limit >= Len(rest) THEN rest ELSE SubSeq(rest, 1, limit)

\* GET /api/events/session/:sessionId: up to the await; Promise.all has
\* sent both reads
QueryReceive(r, sessionId, limit, offset, filter) ==
  /\ Accepts(r)
  /\ received' = received + 1
  /\ sessionId # NoId
  /\ Continue(r, [NewReq("Query") EXCEPT !.sessionId = sessionId,
                    !.pc = "reads", !.limit = limit, !.offset = offset,
                    !.types = filter.types, !.severities = filter.severities,
                    !.startDate = filter.startDate, !.endDate = filter.endDate])
  /\ UNCHANGED <<variant, now, nextUuid, sessions, events>>

\* hasMore of the response: (parseInt(offset) + events.length) < total
HasMore(offset, count, total) == offset + count < total

\* res.json once both reads have returned
QueryAnswer(r, q) ==
  IF q.total # NotRead /\ q.page # NotRead
    THEN Respond(r, [q EXCEPT !.hasMore = HasMore(q.offset, q.page, q.total)], 200)
    ELSE Continue(r, q)

\* Event.find(query).sort(sort).skip(offset).limit(limit).lean()
QueryPage(r) ==
  LET q == reqs[r]
      limit == IF q.limit = NoLimit THEN QueryLimitDefault ELSE q.limit
  IN
  /\ q.op = "Query" /\ q.pc = "reads" /\ q.page = NotRead
  /\ \/ \E o \in SortedDesc(Matching(q)) :
          LET page == Page(o, q.offset, limit) IN
          QueryAnswer(r, [q EXCEPT !.result = page, !.page = Len(page)])
     \/ Respond(r, [q EXCEPT !.fault = "page"], 500)
  /\ UNCHANGED <<variant, now, nextUuid, sessions, events, received>>

\* Event.countDocuments(query)
QueryCount(r) ==
  LET q == reqs[r] IN
  /\ q.op = "Query" /\ q.pc = "reads" /\ q.total = NotRead
  /\ \/ QueryAnswer(r, [q EXCEPT !.total = Cardinality(Matching(q))])
     \/ Respond(r, [q EXCEPT !.fault = "count"], 500)
  /\ UNCHANGED <<variant, now, nextUuid, sessions, events, received>>

\* ------------------------------------------------------------------ the page
\* App.jsx: detectionInterval.current when no interval is set
NoTimer == 0

\* App.jsx: the status texts
STATUS ==
  [IDLE |-> "Idle", MONITORING |-> "Monitoring", NO_FACE |-> "No Face Detected",
   MULTIPLE_FACES |-> "Multiple Faces Detected",
   SUSPICIOUS_ACTIVITY |-> "Suspicious Activity Detected",
   FOCUSED |-> "Focused"]

\* The page after its first render: useState initial values, refs, no
\* timer, no tick, no fetch; loadModels has been called and awaits the models
InitUi ==
  [modelsLoaded |-> FALSE, loadModels |-> "pending",
   sessionId |-> NoId, isMonitoring |-> FALSE, statusText |-> STATUS.IDLE,
   events |-> <<>>,
   detectionInterval |-> NoTimer, timers |-> {}, nextTimer |-> 1,
   ticks |-> EmptyBag, started |-> 0, clicks |-> 0, clears |-> 0,
   outbox |-> EmptyBag, inbox |-> EmptyBag]

\* ------------------------------------------------------------ specification
InitStore ==
  /\ variant \in Variants
  /\ now = 0
  /\ nextUuid = 1
  /\ sessions = <<>>
  /\ events = <<>>
  /\ reqs = [r \in Slots |-> IdleReq]
  /\ received = 0
  /\ last = IdleReq
  /\ issued = {}
  /\ ui = InitUi
  /\ trace = <<>>

Init == InitStore /\ client = "any"

\* A handler goes on with the store operation it waits for
Step(r) ==
  \/ StartSave(r)
  \/ StartEvent(r)
  \/ EndUpdateStep(r)
  \/ EndEvent(r)
  \/ GetEvents(r)
  \/ LogOneCreate(r)
  \/ LogOneLink(r)
  \/ LogBatchInsert(r)
  \/ LogBatchLink(r)
  \/ QueryPage(r)
  \/ QueryCount(r)

\* A client sends a request
Receive(r) ==
  \/ \E candidateName \in CandidateNames : StartReceive(r, candidateName, NULL)
  \/ \E sessionId \in SessionIdInputs : EndReceive(r, sessionId, NULL, NULL)
  \/ \E sessionId \in SessionIdInputs : GetFind(r, sessionId)
  \/ \E sessionId \in SessionIdInputs, body \in LogOneBodies :
       LogOneFind(r, sessionId, body)
  \/ \E sessionId \in SessionIdInputs, body \in BatchInputs :
       LogBatchFind(r, sessionId, body)
  \/ \E sessionId \in SessionIdInputs, limit \in LimitInputs,
        offset \in OffsetInputs :
       QueryReceive(r, sessionId, limit, offset, NoFilter)

Next ==
  \/ Tick
  \/ \E r \in Slots : Step(r)
  \/ \E r \in Slots : Receive(r)

Spec == Init /\ [][Next]_vars

\* The scenario of the API walk-through: one client, each call sent when the
\* one before has been answered, the next ones only once Start gave an id:
\*   Start({candidateName: "Alice"}), LogOne({sessionId: S, type: "no_face"}),
\*   End({sessionId: S}), Get(S)
\* and the same with a LogOne that names its source.
ScenarioBodies ==
  {<<"no_face", NULL, NULL, NoDate>>, <<"no_face", "system", NULL, NoDate>>}

ScenarioInit == InitStore /\ client = "scenario"

ScenarioStart == Len(trace) = 0 /\ StartReceive(1, "Alice", NULL)

ScenarioLogOne ==
  /\ Len(trace) = 1 /\ trace[1].code = 201
  /\ \E body \in ScenarioBodies : LogOneFind(1, trace[1].sessionId, body)

ScenarioEnd == Len(trace) = 2 /\ EndReceive(1, trace[1].sessionId, NULL, NULL)

ScenarioGet == Len(trace) = 3 /\ GetFind(1, trace[1].sessionId)

ScenarioNext ==
  \/ Tick
  \/ StartSave(1)
  \/ StartEvent(1)
  \/ LogOneCreate(1)
  \/ LogOneLink(1)
  \/ EndUpdateStep(1)
  \/ EndEvent(1)
  \/ GetEvents(1)
  \/ ScenarioStart
  \/ ScenarioLogOne
  \/ ScenarioEnd
  \/ ScenarioGet

ScenarioSpec == ScenarioInit /\ [][ScenarioNext]_vars

\* The clients of the event query: sessions are started, events with a
\* source are logged, and the events of a session are queried with every
\* pagination and filter below, all at any time.
QueryLogBodies ==
  {<<"no_face", "system", "warning", 0>>, <<"face_lost", "system", NULL, NoDate>>}

QueryFilters ==
  {[NoFilter EXCEPT !.types = <<"no_face">>],
   [NoFilter EXCEPT !.types = <<"no_face", "session_start">>],
   [NoFilter EXCEPT !.severities = <<"warning">>],
   [NoFilter EXCEPT !.startDate = 1],
   [NoFilter EXCEPT !.endDate = 0],
   [NoFilter EXCEPT !.types = <<"session_start">>, !.startDate = 0, !.endDate = 0]}

\* limit and offset of the query string, limit 0 included
QueryPaginations == {NoLimit, 0, 1} \X {0, 1}

QueryInit == InitStore /\ client = "query"

QueryClient(r) ==
  \/ StartReceive(r, "Alice", NULL)
  \/ \E sessionId \in issued, body \in QueryLogBodies :
       LogOneFind(r, sessionId, body)
  \/ \E sessionId \in issued \cup {UnknownId}, p \in QueryPaginations :
       QueryReceive(r, sessionId, p[1], p[2], NoFilter)
  \/ \E sessionId \in issued, filter \in QueryFilters :
       QueryReceive(r, sessionId, NoLimit, 0, filter)

QueryStep(r) ==
  \/ StartSave(r)
  \/ StartEvent(r)
  \/ LogOneCreate(r)
  \/ LogOneLink(r)
  \/ QueryPage(r)
  \/ QueryCount(r)

QueryNext ==
  \/ Tick
  \/ \E r \in Slots : QueryStep(r)
  \/ \E r \in Slots : QueryClient(r)

QuerySpec == QueryInit /\ [][QueryNext]_vars

\* The clients of the session metadata: sessions are started with and
\* without metadata and ended with and without end reason and end data.
StartMetadataInputs == {NULL, "UA"}
EndReasonInputs == {NULL, "timeout"}
EndDataInputs == {NULL, "data"}

MetadataInit == InitStore /\ client = "metadata"

MetadataClient(r) ==
  \/ \E metadata \in StartMetadataInputs : StartReceive(r, "Alice", metadata)
  \/ \E sessionId \in issued, endReason \in EndReasonInputs,
        metadata \in EndDataInputs :
       EndReceive(r, sessionId, endReason, metadata)

MetadataStep(r) ==
  \/ StartSave(r)
  \/ StartEvent(r)
  \/ EndUpdateStep(r)
  \/ EndEvent(r)

MetadataNext ==
  \/ Tick
  \/ \E r \in Slots : MetadataStep(r)
  \/ \E r \in Slots : MetadataClient(r)

MetadataSpec == MetadataInit /\ [][MetadataNext]_vars

\* ------------------------------------------------------- the page's handlers
\* Every function of the component closes over the state of the render that
\* created it; sessionId below is the sessionId of that render.  A handler
\* runs to its next await without interruption, and the renders and effects
\* its state updates cause are part of the same step: timers fire a second
\* apart.

\* setEvents(prev => [newEvent, ...prev].slice(0, 100))
EventsCap == 100

Capped(list) == SubSeq(list, 1, IF Len(list) < EventsCap THEN Len(list) ELSE EventsCap)

\* logEvent(event): a string is shown as type info; only an object is sent
\* to the server, and only by a closure that has a sessionId
LogEvent(u, sessionId, isObject, type, message) ==
  [u EXCEPT
     !.events = Capped(<<[type |-> IF isObject THEN type ELSE "info",
                          message |-> message]>> \o @),
     !.outbox = IF sessionId # NoId /\ isObject
                  THEN @ (+) SetToBag({Msg("LogOne", sessionId, type)})
                  ELSE @]

\* stopDetection()
StopDetection(u, sessionId) ==
  [u EXCEPT
     !.timers = {t \in @ : t.id # u.detectionInterval},
     !.detectionInterval = NoTimer,
     !.statusText = IF sessionId = NoId THEN STATUS.IDLE ELSE @]

\* setInterval(tick, 1000): the timer runs the tick of the calling render
SetInterval(u, sessionId) ==
  [u EXCEPT
     !.timers = @ \cup {[id |-> u.nextTimer, sessionId |-> sessionId]},
     !.detectionInterval = u.nextTimer,
     !.nextTimer = @ + 1,
     !.statusText = STATUS.MONITORING]

\* (mutant of StartDetection: the existing interval is not cleared first)
MutStartDetectionKeepsTimer(u, sessionId) == SetInterval(u, sessionId)

\* startDetection()
StartDetection(u, sessionId) == SetInterval(StopDetection(u, sessionId), sessionId)

\* (mutant of SessionEffect: detection starts as soon as the models are
\* loaded, with or without a session)
MutSessionEffectUnguarded(u, before) ==
  LET c == StopDetection(u, before) IN
  IF c.modelsLoaded THEN StartDetection(c, c.sessionId) ELSE c

\* useEffect(..., [sessionId, modelsLoaded]) after a render that changed a
\* dependency: the cleanup of the effect that ran last (whose closure has
\* the sessionId of before), then the effect of the new render
SessionEffect(u, before) ==
  LET c == StopDetection(u, before) IN
  IF c.sessionId # NoId /\ c.modelsLoaded
    THEN StartDetection(c, c.sessionId)
    ELSE IF c.sessionId = NoId /\ c.detectionInterval # NoTimer
           THEN StopDetection(c, c.sessionId)
           ELSE c

\* What changes nothing of the server
PageOnly ==
  /\ last' = IdleReq
  /\ UNCHANGED <<variant, now, nextUuid, sessions, events, reqs, received,
                  issued, client, trace>>

\* A step of a tick of the page: `last` shows what the detector returned
Detected(pc, faces, faceRatio, predictions) ==
  /\ last' = [IdleReq EXCEPT !.op = "tick", !.pc = pc, !.faces = faces,
                             !.faceRatio = faceRatio,
                             !.predictions = predictions]
  /\ UNCHANGED <<variant, now, nextUuid, sessions, events, reqs, received,
                  issued, client, trace>>

\* loadModels(): the models arrive, or loading throws
LoadModels ==
  /\ ui.loadModels = "pending"
  /\ \/ ui' = SessionEffect(
                LogEvent([ui EXCEPT !.loadModels = "done", !.modelsLoaded = TRUE],
                         ui.sessionId, FALSE, NULL, "AI models loaded successfully"),
                ui.sessionId)
     \/ ui' = LogEvent([ui EXCEPT !.loadModels = "done"],
                       ui.sessionId, FALSE, NULL, "Error loading AI models")
  /\ PageOnly

\* The button is rendered once the models are loaded; it calls startSession
\* while isMonitoring is false: in those renders sessionId is null
StartSessionClick ==
  /\ ui.modelsLoaded /\ ~ui.isMonitoring
  /\ ui' = [ui EXCEPT !.clicks = @ + 1,
                      !.statusText = "Starting session...",
                      !.outbox = @ (+) SetToBag({Msg("Start", NoId, NULL)})]
  /\ PageOnly

\* (mutant of EndSessionFinally: the loop is stopped, the state is not reset)
MutEndSessionFinallyStopsOnly(u, sessionId) == StopDetection(u, sessionId)

\* The finally block of endSession, and the render that follows it
EndSessionFinally(u, sessionId) ==
  LET c == StopDetection(u, sessionId)
      d == [c EXCEPT !.sessionId = NoId, !.isMonitoring = FALSE,
                     !.statusText = STATUS.IDLE, !.clears = @ + 1]
  IN IF u.sessionId # NoId THEN SessionEffect(d, u.sessionId) ELSE d

\* The button calls endSession while isMonitoring is true
EndSessionClick ==
  /\ ui.modelsLoaded /\ ui.isMonitoring
  /\ LET u == [ui EXCEPT !.clicks = @ + 1] IN
     ui' = IF ui.sessionId = NoId
             THEN EndSessionFinally(u, NoId)
             ELSE [u EXCEPT !.statusText = "Ending session...",
                            !.outbox = @ (+) SetToBag({Msg("End", ui.sessionId, NULL)})]
  /\ PageOnly

\* response.ok and data.success
Passed(a) == a.code \in {200, 201} /\ a.success = "true"

\* The order in which React runs the rest of startSession and the effect
\* of the render with the new sessionId: after the handler when state
\* updates are batched, before its logEvent and startDetection when each
\* state update renders at once
RenderOrders == {"batched", "unbatched"}

\* startSession after its awaits
StartSessionContinue(a) ==
  /\ a.op = "Start" /\ BagIn(a, ui.inbox)
  /\ LET u == [ui EXCEPT !.inbox = @ (-) SetToBag({a})]
         set == [u EXCEPT !.sessionId = a.sessionId, !.isMonitoring = TRUE,
                          !.statusText = STATUS.MONITORING]
         said(v) == LogEvent(v, NoId, TRUE, "session_start",
                             "Proctoring session started")
     IN
     IF Passed(a)
       THEN \E order \in RenderOrders :
              ui' = IF order = "batched"
                      THEN SessionEffect(StartDetection(said(set), NoId),
                                         ui.sessionId)
                      ELSE StartDetection(said(SessionEffect(set, ui.sessionId)),
                                          NoId)
       ELSE ui' = LogEvent([u EXCEPT !.statusText = "Failed to start session"],
                           NoId, TRUE, "error", "Error starting session")
  /\ PageOnly

\* endSession after its awaits: its closure has the sessionId it sent
EndSessionContinue(a) ==
  /\ a.op = "End" /\ BagIn(a, ui.inbox)
  /\ LET u == [ui EXCEPT !.inbox = @ (-) SetToBag({a})]
         said == IF Passed(a)
                   THEN LogEvent(u, a.sessionId, TRUE, "session_end",
                                 "Proctoring session ended")
                   ELSE LogEvent(u, a.sessionId, TRUE, "error",
                                 "Error ending session")
     IN ui' = EndSessionFinally(said, a.sessionId)
  /\ PageOnly

\* setTimeout(() => setEvents([]), 2000)
ClearEvents ==
  /\ ui.clears > 0
  /\ ui' = [ui EXCEPT !.clears = @ - 1, !.events = <<>>]
  /\ PageOnly

\* A fetch rejects (the server cannot be reached): startSession and
\* endSession go to their catch, logEvent's catch only logs to the console
FetchRejects(m) ==
  /\ BagIn(m, ui.outbox)
  /\ ui' = [ui EXCEPT
              !.outbox = @ (-) SetToBag({m}),
              !.inbox = IF m.op \in {"Start", "End"}
                          THEN @ (+) SetToBag({Reply(m.op, m.sessionId, 0, "absent")})
                          ELSE @]
  /\ PageOnly

\* The interval timer t calls tick: it returns at once when the video or
\* the canvas is missing, otherwise it awaits the face detection
TickStart(t) ==
  /\ t \in ui.timers
  /\ ui.started < MaxTicks
  /\ \/ ui' = [ui EXCEPT !.started = @ + 1]
     \/ ui' = [ui EXCEPT !.started = @ + 1,
                         !.ticks = @ (+) SetToBag({[pc |-> "faces",
                                                    sessionId |-> t.sessionId]})]
  /\ Detected("start", 0, 0, <<>>)

\* faceRatio thresholds, in percent of the frame
MoveCloserBelow == 10
MoveBackAbove == 30

\* (mutant of FaceStatus: the thresholds themselves are too far / too close)
MutFaceStatusInclusive(faceRatio) ==
  IF faceRatio <= MoveCloserBelow THEN "Move closer"
  ELSE IF faceRatio >= MoveBackAbove THEN "Move back"
  ELSE STATUS.FOCUSED

\* The status of a tick with one face
FaceStatus(faceRatio) ==
  IF faceRatio < MoveCloserBelow THEN "Move closer"
  ELSE IF faceRatio > MoveBackAbove THEN "Move back"
  ELSE STATUS.FOCUSED

\* The tick's work between the face detection and the object detection
Faces(u, sessionId, faces, faceRatio) ==
  IF faces = 0
    THEN LogEvent([u EXCEPT !.statusText = STATUS.NO_FACE],
                  sessionId, FALSE, NULL, "No face detected")
    ELSE IF faces > 1
      THEN LogEvent([u EXCEPT !.statusText = STATUS.MULTIPLE_FACES],
                    sessionId, FALSE, NULL, "Multiple faces detected")
      ELSE [u EXCEPT !.statusText = FaceStatus(faceRatio)]

\* (mutant of TickCatch: the catch also stops the loop)
MutTickCatchStopsLoop(u, k) ==
  StopDetection(LogEvent([u EXCEPT !.ticks = @ (-) SetToBag({k})],
                         k.sessionId, FALSE, NULL, "Detection error"),
                k.sessionId)

\* catch (error) of tick
TickCatch(u, k) ==
  LogEvent([u EXCEPT !.ticks = @ (-) SetToBag({k})],
           k.sessionId, FALSE, NULL, "Detection error")

\* tick after await faceapi.detectAllFaces(...): cocoModel is loaded in
\* every render that can start a timer, so the object detection follows
TickFaces(k, faces, faceRatio) ==
  /\ k.pc = "faces" /\ BagIn(k, ui.ticks)
  /\ ui' = Faces([ui EXCEPT !.ticks = (@ (-) SetToBag({k}))
                                      (+) SetToBag({[k EXCEPT !.pc = "objects"]})],
                  k.sessionId, faces, faceRatio)
  /\ Detected("faces", faces, faceRatio, <<>>)

\* An inference of tick k throws
TickThrows(k) ==
  /\ BagIn(k, ui.ticks)
  /\ ui' = TickCatch(ui, k)
  /\ Detected("catch", 0, 0, <<>>)

\* (mutant of SuspiciousObjects: keyboard is missing)
MutSuspiciousObjectsNoKeyboard == {"cell phone", "book", "laptop", "mouse"}

\* The classes the tick reports
SuspiciousObjects == {"cell phone", "book", "laptop", "mouse", "keyboard"}

\* for (const prediction of predictions) { ... logEvent(...) }: the message
\* of the entry is modelled by the class it names
RECURSIVE Objects(_, _, _)
Objects(u, sessionId, predictions) ==
  IF predictions = <<>> THEN u
  ELSE Objects(IF Head(predictions) \in SuspiciousObjects
                 THEN LogEvent([u EXCEPT !.statusText = "suspicious"],
                               sessionId, FALSE, NULL, Head(predictions))
                 ELSE u,
               sessionId, Tail(predictions))

\* tick after await cocoModel.detect(video)
TickObjects(k, predictions) ==
  /\ k.pc = "objects" /\ BagIn(k, ui.ticks)
  /\ LET u == Objects([ui EXCEPT !.ticks = @ (-) SetToBag({k})],
                       k.sessionId, predictions)
     IN ui' = IF u.statusText = "suspicious"
                THEN [u EXCEPT !.statusText = STATUS.SUSPICIOUS_ACTIVITY]
                ELSE u
  /\ Detected("objects", 0, 0, predictions)

\* No route of the mounted router matches: Express answers 404
Unrouted(r, op) ==
  /\ Accepts(r)
  /\ received' = received + 1
  /\ Respond(r, NewReq(op), 404)
  /\ UNCHANGED <<variant, now, nextUuid, sessions, events>>

\* The bodies the page sends
PageCandidateName == "Test Candidate"
PageMetadata == "UA"
PageEndReason == "user_ended"
PageEndData == "data"

\* logEvent's body: type, no source, severity, timestamp
PageLogBody(type) ==
  <<type, NULL, IF type = "error" THEN "error" ELSE "info", 0>>

\* A fetch of the page reaches the server.  The page posts Start to
\* /api/session, a path only the rich routes have.
Deliver(r, m) ==
  /\ BagIn(m, ui.outbox)
  /\ CASE m.op = "Start" ->
            IF variant = "rich"
              THEN StartReceive(r, PageCandidateName, PageMetadata)
              ELSE Unrouted(r, "Start")
       [] m.op = "End" -> EndReceive(r, m.sessionId, PageEndReason, PageEndData)
       [] m.op = "LogOne" -> LogOneFind(r, m.sessionId, PageLogBody(m.type))

\* The handlers the page's requests reach.  LogOne never gets to link its
\* event: the page sends no source, and the default of LogOne is not in the
\* schema's enumeration
PageStep(r) ==
  \/ StartSave(r)
  \/ StartEvent(r)
  \/ EndUpdateStep(r)
  \/ EndEvent(r)
  \/ LogOneCreate(r)

\* What the detectors return to the page's ticks: the number of faces with
\* the ratio of the first face's box to the frame in percent, and the
\* classes of the predicted objects
PageFaces == {<<0, 0>>, <<1, 20>>}
PagePredictions == {<<>>, <<"cell phone">>}

PageInit == InitStore /\ client = "frontend"

PageNext ==
  \/ LoadModels
  \/ ui.clicks < MaxClicks /\ StartSessionClick
  \/ ui.clicks < MaxClicks /\ EndSessionClick
  \/ \E a \in BagToSet(ui.inbox) : StartSessionContinue(a)
  \/ \E a \in BagToSet(ui.inbox) : EndSessionContinue(a)
  \/ ClearEvents
  \/ \E m \in BagToSet(ui.outbox) : FetchRejects(m)
  \/ \E t \in ui.timers : TickStart(t)
  \/ \E k \in BagToSet(ui.ticks), f \in PageFaces : TickFaces(k, f[1], f[2])
  \/ \E k \in BagToSet(ui.ticks), predictions \in PagePredictions :
       TickObjects(k, predictions)
  \/ \E k \in BagToSet(ui.ticks) : TickThrows(k)
  \/ \E r \in Slots : \E m \in BagToSet(ui.outbox) : Deliver(r, m)
  \/ \E r \in Slots : PageStep(r)

PageSpec == PageInit /\ [][PageNext]_vars

\* The page in one session, with detectors that return every case of the
\* classification: no face, several faces, one face with a ratio below, at,
\* between and above the thresholds; no object, objects of other classes,
\* suspicious objects, the same class twice
DetectorFaces ==
  {<<0, 0>>, <<2, 20>>, <<1, 5>>, <<1, 10>>, <<1, 20>>, <<1, 30>>, <<1, 35>>}

DetectorPredictions ==
  {<<>>, <<"person">>, <<"cell phone">>, <<"book", "person", "laptop">>,
   <<"book", "book">>, <<"mouse", "keyboard">>}

DetectorStep(r) ==
  \/ StartSave(r)
  \/ StartEvent(r)

DetectorNext ==
  \/ LoadModels
  \/ ui.clicks = 0 /\ StartSessionClick
  \/ \E a \in BagToSet(ui.inbox) : StartSessionContinue(a)
  \/ \E t \in ui.timers : TickStart(t)
  \/ \E k \in BagToSet(ui.ticks), f \in DetectorFaces : TickFaces(k, f[1], f[2])
  \/ \E k \in BagToSet(ui.ticks), predictions \in DetectorPredictions :
       TickObjects(k, predictions)
  \/ \E k \in BagToSet(ui.ticks) : TickThrows(k)
  \/ \E r \in Slots : \E m \in BagToSet(ui.outbox) : Deliver(r, m)
  \/ \E r \in Slots : DetectorStep(r)

DetectorSpec == PageInit /\ [][DetectorNext]_vars

\* The page over several sessions: one more click, so that a session runs
\* while the events of the session before it are delivered; the detectors
\* return one face and no object, or throw
LoopFaces == {<<1, 20>>}
LoopPredictions == {<<>>}

LoopNext ==
  \/ LoadModels
  \/ ui.clicks < MaxLoopClicks /\ StartSessionClick
  \/ ui.clicks < MaxLoopClicks /\ EndSessionClick
  \/ \E a \in BagToSet(ui.inbox) : StartSessionContinue(a)
  \/ \E a \in BagToSet(ui.inbox) : EndSessionContinue(a)
  \/ ClearEvents
  \/ \E m \in BagToSet(ui.outbox) : FetchRejects(m)
  \/ \E t \in ui.timers : TickStart(t)
  \/ \E k \in BagToSet(ui.ticks), f \in LoopFaces : TickFaces(k, f[1], f[2])
  \/ \E k \in BagToSet(ui.ticks), predictions \in LoopPredictions :
       TickObjects(k, predictions)
  \/ \E k \in BagToSet(ui.ticks) : TickThrows(k)
  \/ \E r \in Slots : \E m \in BagToSet(ui.outbox) : Deliver(r, m)
  \/ \E r \in Slots : PageStep(r)

LoopSpec == PageInit /\ [][LoopNext]_vars

\* ------------------------------------------------------------------ claims
\* The statuses in which a session is over
Terminal == {"completed", "terminated", "error", "ended"}

Answer(op) == last.pc = "done" /\ last.op = op

\* C1: an End whose sessionId matches no session, or a session that was
\* already ended when the store handled the request, answers 404 and never
\* success (no store failure).
C1_EndOfEndedIsNotFound ==
  (Answer("End") /\ last.sessionId # NoId /\ last.fault = "none"
     /\ last.prior # "active")
    => last.code = 404

\* C2: of two End requests received for the same active session and handled
\* at the same time, at most one has its update applied (and then answers
\* success); they are never both past a matching findOneAndUpdate.
C2_OneOfTwoEndsSucceeds ==
  \A r1, r2 \in Slots :
    (r1 # r2 /\ reqs[r1].op = "End" /\ reqs[r2].op = "End"
       /\ reqs[r1].sessionId = reqs[r2].sessionId
       /\ reqs[r1].seen = "active" /\ reqs[r2].seen = "active")
      => ~(reqs[r1].pc = "event" /\ reqs[r2].pc = "event")

\* The types of the events of a Get response, as a bag would count them
TypeCount(result, type) ==
  Cardinality({i \in DOMAIN result : events[result[i]].type = type})

\* C3: in the scenario Start, LogOne(S, no_face, nothing else), End(S),
\* Get(S) without store failure the answers are 201, 201, 200, 200 and Get
\* returns a session in a terminal status with exactly three events: one
\* session_start, one no_face, one session_end.
C3_ScenarioThreeEvents ==
  (/\ client = "scenario" /\ Len(trace) = 4
   /\ \A i \in 1..4 : trace[i].fault = "none"
   /\ trace[2].source = NULL)
    => /\ trace[1].code = 201 /\ trace[2].code = 201
       /\ trace[3].code = 200 /\ trace[4].code = 200
       /\ trace[4].session.status \in Terminal
       /\ Len(trace[4].result) = 3
       /\ TypeCount(trace[4].result, "session_start") = 1
       /\ TypeCount(trace[4].result, "no_face") = 1
       /\ TypeCount(trace[4].result, "session_end") = 1

\* C4: a LogOne for an existing session with a type of the enumeration and
\* source, severity and timestamp omitted answers 201 and has persisted one
\* event with source system, severity info and the server's time (no store
\* failure).
C4_LogOneDefaults ==
  (Answer("LogOne") /\ last.sessionId \in DOMAIN sessions
     /\ last.type \in EventTypes /\ last.fault = "none"
     /\ last.source = NULL /\ last.severity = NULL /\ last.timestamp = NoDate)
    => /\ last.code = 201
       /\ last.eventId \in 1..Len(events)
       /\ events[last.eventId].source = "system"
       /\ events[last.eventId].severity = "info"
       /\ events[last.eventId].timestamp \in 0..now

\* C5: a LogOne for an existing session whose type is outside the
\* enumeration answers 400 and persists no event (no store failure).
C5_LogOneUnknownTypeIs400 ==
  (Answer("LogOne") /\ last.sessionId \in DOMAIN sessions /\ last.fault = "none"
     /\ last.type # NULL /\ last.type \notin EventTypes)
    => last.code = 400 /\ last.eventId = 0

\* C6: the stored duration of an ended session is endTime - startTime.
C6_DurationStored ==
  \A s \in DOMAIN sessions :
    sessions[s].endTime # NoDate
      => sessions[s].duration = sessions[s].endTime - sessions[s].startTime

\* C7: once a session's endTime is set, no step changes it.
C7_EndTimeSetOnce ==
  [][\A s \in DOMAIN sessions :
       sessions[s].endTime # NoDate
         => sessions'[s].endTime = sessions[s].endTime]_vars

\* C8: a session is created active, and a session that is no longer active
\* is never active again.
C8_StatusOnlyForward ==
  [][/\ \A s \in DOMAIN sessions' \ DOMAIN sessions :
          sessions'[s].status = "active"
     /\ \A s \in DOMAIN sessions :
          /\ s \in DOMAIN sessions'
          /\ sessions[s].status # "active" => sessions'[s].status # "active"]_vars

\* C8's case: a request for a session that was over when the store handled
\* it has been answered, and the session is still over
C8_Witness ==
  /\ last.pc = "done" /\ last.op \in {"End", "LogOne", "LogBatch"}
  /\ last.prior \in Terminal /\ last.fault = "none"
  /\ last.sessionId \in DOMAIN sessions
  /\ sessions[last.sessionId].status \in Terminal

\* C9: a LogOne or LogBatch handled for a session in a terminal status
\* persists no event.
C9_NoEventAfterEnd ==
  /\ (Answer("LogOne") /\ last.prior \in Terminal) => last.eventId = 0
  /\ (Answer("LogBatch") /\ last.prior \in Terminal) => last.eventIds = <<>>

\* C10: when the write of the lifecycle event fails in Start or End, the
\* session write stays and the caller gets the success answer (201, 200).
C10_LifecycleEventFailureSwallowed ==
  (last.pc = "done" /\ last.fault = "event")
    => /\ last.sessionId \in DOMAIN sessions
       /\ last.op = "Start" => last.code = 201
       /\ last.op = "End" =>
            last.code = 200 /\ sessions[last.sessionId].status \in Terminal

\* C11: a LogOne whose session-side update (event reference, lastActivity)
\* fails has its event persisted and still answers 201.
C11_LinkFailureNotSurfaced ==
  (Answer("LogOne") /\ last.fault = "link")
    => /\ last.eventId \in 1..Len(events)
       /\ last.code = 201

\* C12: after a LogBatch either every element of the batch is persisted
\* and the answer is 201, or no element is persisted and the answer is not
\* 201; also when an element has a type outside the enumeration, and when
\* the store fails after the insert.  (The store's own partial insert is
\* left aside.)
C12_BatchAllOrNothing ==
  (Answer("LogBatch") /\ last.fault # "insert")
    => \/ last.code = 201 /\ Len(last.eventIds) = Len(last.batch)
       \/ last.code # 201 /\ last.eventIds = <<>>

\* C13: a LogBatch of N elements, each with a type of the enumeration and a
\* source of the enumeration or none, for an existing session (no store
\* failure) answers 201 with N ids of N persisted events that carry the
\* request's sessionId.
C13_BatchOfNValid ==
  (/\ Answer("LogBatch") /\ last.sessionId \in DOMAIN sessions
   /\ last.fault = "none" /\ Len(last.batch) > 0
   /\ \A i \in DOMAIN last.batch :
        /\ last.batch[i].type \in EventTypes
        /\ last.batch[i].source \in Sources \cup {NULL})
    => /\ last.code = 201
       /\ Len(last.eventIds) = Len(last.batch)
       /\ \A i \in DOMAIN last.eventIds :
            /\ last.eventIds[i] \in 1..Len(events)
            /\ events[last.eventIds[i]].sessionId = last.sessionId

\* The request answered by the step
Answered(op) == last'.pc = "done" /\ last'.op = op

\* C14: a LogOne with sessionId and type for which no session exists
\* answers 404, and its step persists no event and changes no session (no
\* store failure).
C14_LogOneOfNoSessionIs404 ==
  [][(/\ Answered("LogOne") /\ last'.fault = "none"
      /\ last'.sessionId # NoId /\ last'.type # NULL
      /\ last'.sessionId \notin DOMAIN sessions)
       => /\ last'.code = 404 /\ last'.eventId = 0
          /\ events' = events /\ sessions' = sessions]_vars

\* C14's case: with a session and an event in the stores, a LogOne for a
\* sessionId without session has been answered
C14_Witness ==
  /\ Answer("LogOne") /\ last.sessionId = UnknownId /\ last.type = "no_face"
  /\ last.code = 404
  /\ DOMAIN sessions # {} /\ events # <<>>

\* C15: a LogBatch without sessionId, or whose events is no list or an
\* empty one, answers 400; otherwise one for which no session exists answers
\* 404 (no store failure); in both cases the step persists no event and
\* changes no session.
C15_LogBatchRefusals ==
  [][(Answered("LogBatch") /\ last'.fault = "none")
       => LET invalid == \/ last'.sessionId = NoId
                         \/ ~last'.array
                         \/ last'.batch = <<>>
              absent == last'.sessionId \notin DOMAIN sessions
          IN
          /\ invalid => last'.code = 400
          /\ (~invalid /\ absent) => last'.code = 404
          /\ (invalid \/ absent)
               => /\ last'.eventIds = <<>>
                  /\ events' = events /\ sessions' = sessions]_vars

\* C15's case: with a session and an event in the stores, a LogBatch whose
\* events is no list has been answered for an existing session
C15_Witness ==
  /\ Answer("LogBatch") /\ ~last.array /\ last.batch # <<>>
  /\ last.sessionId \in DOMAIN sessions /\ events # <<>>
  /\ last.code = 400

\* C16: a Start without candidateName answers 400, and its step persists no
\* session and no event.
C16_StartWithoutNameIs400 ==
  [][(Answered("Start") /\ last'.candidateName = NULL)
       => /\ last'.code = 400
          /\ sessions' = sessions /\ events' = events]_vars

\* C16's case: a Start without candidateName has been answered 400 while
\* another Start is being handled
C16_Witness ==
  /\ Answer("Start") /\ last.candidateName = NULL /\ last.code = 400
  /\ \E r \in Slots : reqs[r].op = "Start"

\* C17: a QueryBySession answered 200 returns at most limit events (the
\* default limit when none is given), and its hasMore is true exactly when
\* offset + returned count < total.
C17_PageWithinLimit ==
  (Answer("Query") /\ last.code = 200)
    => /\ Len(last.result) <=
            (IF last.limit = NoLimit THEN QueryLimitDefault ELSE last.limit)
       /\ last.hasMore <=> (last.offset + Len(last.result) < last.total)

\* The _ids of the events of the session of request a that its filters
\* select: type and severity equal to the value or in the list, timestamp
\* in [startDate, endDate]
Selected(a) ==
  {i \in 1..Len(events) :
     /\ events[i].sessionId = a.sessionId
     /\ a.types = <<>> \/ events[i].type \in {a.types[k] : k \in DOMAIN a.types}
     /\ a.severities = <<>>
          \/ events[i].severity \in {a.severities[k] : k \in DOMAIN a.severities}
     /\ a.startDate = NoDate \/ a.startDate <= events[i].timestamp
     /\ a.endDate = NoDate \/ events[i].timestamp <= a.endDate}

\* The request of slot r after a step of it: waiting, or answered
After(r) == IF reqs'[r].pc = "idle" THEN last' ELSE reqs'[r]

\* C18: the read of the page returns only events the session and filters
\* select, each once, and all of them when no limit and no offset are
\* given; the read of the count returns the number of events selected.
C18_QueryReturnsSelected ==
  [][\A r \in Slots :
       (reqs[r].op = "Query" /\ reqs'[r] # reqs[r] /\ After(r).fault = "none")
         => LET a == After(r)
                ids == {a.result[k] : k \in DOMAIN a.result}
            IN
            /\ (reqs[r].page = NotRead /\ a.page # NotRead)
                 => /\ ids \subseteq Selected(a)
                    /\ Cardinality(ids) = Len(a.result) /\ a.page = Len(a.result)
                    /\ (a.limit = NoLimit /\ a.offset = 0) => ids = Selected(a)
            /\ (reqs[r].total = NotRead /\ a.total # NotRead)
                 => a.total = Cardinality(Selected(a))]_vars

\* C18's case: a query with a filter has been answered with some events of
\* the session and without others of it
C18_Witness ==
  /\ Answer("Query") /\ last.code = 200
  /\ last.types # <<>> \/ last.severities # <<>>
       \/ last.startDate # NoDate \/ last.endDate # NoDate
  /\ last.result # <<>> /\ last.total = Len(last.result)
  /\ \E i \in 1..Len(events) :
       /\ events[i].sessionId = last.sessionId
       /\ \A k \in DOMAIN last.result : last.result[k] # i

\* C19: a Get for which no session exists answers 404; otherwise it answers
\* 200 with the session of that id and all persisted events of that
\* sessionId, each once, timestamps non-increasing (no store failure).
C19_GetReturnsSessionAndEvents ==
  (Answer("Get") /\ last.fault = "none")
    => IF last.sessionId \notin DOMAIN sessions
         THEN last.code = 404 /\ last.result = <<>>
         ELSE /\ last.code = 200
              /\ last.session.sessionId = last.sessionId
              /\ {last.result[k] : k \in DOMAIN last.result}
                   = {i \in 1..Len(events) : events[i].sessionId = last.sessionId}
              /\ \A j, k \in DOMAIN last.result :
                   /\ j # k => last.result[j] # last.result[k]
                   /\ j < k => events[last.result[j]].timestamp
                                 >= events[last.result[k]].timestamp

\* C19's case: a Get has returned events of different timestamps
C19_Witness ==
  /\ Answer("Get") /\ last.code = 200 /\ Len(last.result) >= 2
  /\ events[last.result[1]].timestamp > events[last.result[Len(last.result)]].timestamp

\* C20: every persisted event has the sessionId of a persisted session; a
\* Start answered 201 has its session persisted; a Start whose session
\* write failed has persisted no session and no event.
C20_EventsBelongToSessions ==
  /\ \A i \in 1..Len(events) : events[i].sessionId \in DOMAIN sessions
  /\ (Answer("Start") /\ last.code = 201) => last.sessionId \in DOMAIN sessions
  /\ (Answer("Start") /\ last.fault = "save")
       => /\ last.sessionId \notin DOMAIN sessions
          /\ \A i \in 1..Len(events) : events[i].sessionId # last.sessionId

\* C20's case: a Start's session write has failed while the store holds the
\* event of a batch element that named another sessionId of its own
C20_Witness ==
  /\ Answer("Start") /\ last.fault = "save"
  /\ \E i \in 1..Len(events) : events[i].type = Foreign.type

\* The members of a sequence
Range(f) == {f[k] : k \in DOMAIN f}

\* C21: after a LogOne answered 201 the session's events relation holds
\* the new event's id and the stored lastActivity is the time of the call.
C21_LogOneTouchesSession ==
  (Answer("LogOne") /\ last.code = 201)
    => /\ last.eventId \in Range(sessions[last.sessionId].events)
       /\ sessions[last.sessionId].lastActivity \in 0..now

C23_SuccessInEveryResponse ==
  last.pc = "done" => last.success \in {"true", "false"}

\* C24: within a session the session_start event is persisted before any
\* other event, and no detection event is persisted after the session_end
\* event.
C24_LifecycleOrder ==
  \A i, j \in 1..Len(events) :
    (i < j /\ events[i].sessionId = events[j].sessionId)
      => /\ events[j].type # "session_start"
         /\ events[i].type = "session_end" => events[j].type = "session_end"

DetectionMessages ==
  {"No face detected", "Multiple faces detected"} \cup SuspiciousObjects

\* C26: whenever a tick of the page adds a detection entry (no face,
\* multiple faces, a suspicious object) while the page has a session, a
\* POST /api/events carrying the session's id is issued in the same step.
C26_TickEventsAreForwarded ==
  [][(/\ ui.sessionId # NoId
      /\ ui'.ticks # ui.ticks /\ ui'.events # ui.events
      /\ ui'.events[1].message \in DetectionMessages)
       => \E m \in BagToSet(ui'.outbox) :
            /\ m.op = "LogOne" /\ m.sessionId = ui.sessionId
            /\ CopiesIn(m, ui'.outbox) > CopiesIn(m, ui.outbox)]_vars

\* C27: a timer callback starts a tick only in a state where the page's
\* sessionId is set and the models are loaded.
C27_TicksOnlyInSession ==
  [][ui'.started > ui.started => ui.sessionId # NoId /\ ui.modelsLoaded]_vars

\* C27's case: a tick is awaiting its inference while the page has a
\* session
C27_Witness ==
  /\ ui.sessionId # NoId /\ ui.modelsLoaded
  /\ BagCardinality(ui.ticks) > 0

\* C28: at most one tick body is executing at any time.
C28_TicksAreSerialized == BagCardinality(ui.ticks) <= 1

\* C29: at most one interval timer is active, it is the one the page holds
\* in detectionInterval, and while the page has a session exactly one is
\* active.
C29_OneTimer ==
  /\ Cardinality(ui.timers) <= 1
  /\ \A t \in ui.timers : t.id = ui.detectionInterval
  /\ ui.sessionId # NoId => Cardinality(ui.timers) = 1

\* C29's case: the loop has been started twice and stopped in between
\* (startSession and the session effect of one Start), and runs
C29_Witness ==
  /\ ui.sessionId # NoId
  /\ ui.nextTimer > 2
  /\ Cardinality(ui.timers) = 1

\* C30: a session has at most one persisted session_start event and at
\* most one persisted session_end event.
C30_OneStartOneEnd ==
  \A s \in DOMAIN sessions :
    \A type \in {"session_start", "session_end"} :
      Cardinality({i \in 1..Len(events) :
                     events[i].sessionId = s /\ events[i].type = type}) <= 1

\* C31: whenever no request is being handled, the events relation of every
\* session holds the id of every persisted event of the session exactly
\* once, lifecycle events included, and no id of another session's event.
C31_EventsRelationComplete ==
  (\A r \in Slots : Free(r))
    => \A s \in DOMAIN sessions :
         /\ \A i \in 1..Len(events) :
              events[i].sessionId = s
                => Cardinality({k \in DOMAIN sessions[s].events :
                                  sessions[s].events[k] = i}) = 1
         /\ \A k \in DOMAIN sessions[s].events :
              /\ sessions[s].events[k] \in 1..Len(events)
              /\ events[sessions[s].events[k]].sessionId = s

\* C32: once endSession has returned the page to idle, a tick that was
\* awaiting its inference changes neither the status text nor the event
\* list when it goes on.
C32_LateTickChangesNothing ==
  [][(/\ ui.sessionId = NoId /\ ui.statusText = STATUS.IDLE
      /\ ui'.ticks # ui.ticks /\ ui'.started = ui.started)
       => /\ ui'.statusText = STATUS.IDLE
          /\ ui'.events = ui.events]_vars

\* C33: the step in which endSession finishes (its response or the
\* rejection of its fetch is consumed) leaves the page without sessionId,
\* not monitoring and without an active interval timer.
C33_EndSessionReturnsToIdle ==
  [][(\E a \in BagToSet(ui.inbox) :
        a.op = "End" /\ CopiesIn(a, ui'.inbox) < CopiesIn(a, ui.inbox))
       => /\ ui'.sessionId = NoId
          /\ ~ui'.isMonitoring
          /\ ui'.timers = {}
          /\ ui'.detectionInterval = NoTimer]_vars

\* C33's case: endSession has finished in its catch, the page is idle and
\* the server session is still active
C33_Witness ==
  /\ ui.sessionId = NoId /\ ~ui.isMonitoring /\ ui.timers = {}
  /\ ui.events # <<>> /\ ui.events[1].message = "Error ending session"
  /\ \E s \in DOMAIN sessions : sessions[s].status = "active"

\* C34: a QueryBySession answered 200 never returns more events than its
\* total, and its hasMore is not false while total counts an event beyond
\* offset + returned count, also when events are inserted between its two
\* reads.
C34_QueryCountWithinTotal ==
  (Answer("Query") /\ last.code = 200)
    => /\ Len(last.result) <= last.total
       /\ last.total > last.offset + Len(last.result) => last.hasMore

\* C35: the status of every persisted session is a value of the session
\* schema's enumeration.
C35_StatusInEnumeration ==
  \A s \in DOMAIN sessions : sessions[s].status \in SessionStatuses

\* No fetch of the page is on its way, being handled or awaited
Quiet ==
  /\ ui.outbox = EmptyBag /\ ui.inbox = EmptyBag
  /\ \A r \in Slots : Free(r)

\* C36: when the page has a session and none of its requests is under way,
\* the only active session of the server is the one in the page's
\* sessionId, also after two overlapping startSession calls.
C36_OneOpenSession ==
  (Quiet /\ ui.sessionId # NoId)
    => \A s \in DOMAIN sessions :
         sessions[s].status = "active" => s = ui.sessionId

\* The messages of an event list, newest first
Messages(list) == [i \in 1..Len(list) |-> list[i].message]

\* The entries a tick owes for its predictions, newest first: one for each
\* prediction of a suspicious class
RECURSIVE Reported(_)
Reported(predictions) ==
  IF predictions = <<>> THEN <<>>
  ELSE Reported(Tail(predictions)) \o
       (IF Head(predictions) \in {"cell phone", "book", "laptop", "mouse", "keyboard"}
          THEN <<Head(predictions)>> ELSE <<>>)

C38_FaceClassification ==
  [][(last'.op = "tick" /\ last'.pc = "faces")
       => LET faces == last'.faces
              faceRatio == last'.faceRatio
          IN
          /\ ui'.statusText =
               (IF faces = 0 THEN STATUS.NO_FACE
                ELSE IF faces > 1 THEN STATUS.MULTIPLE_FACES
                ELSE IF faceRatio < 10 THEN "Move closer"
                ELSE IF faceRatio > 30 THEN "Move back"
                ELSE STATUS.FOCUSED)
          /\ Messages(ui'.events) =
               (IF faces = 0 THEN <<"No face detected">>
                ELSE IF faces > 1 THEN <<"Multiple faces detected">>
                ELSE <<>>) \o Messages(ui.events)]_vars

\* C38's case: a tick has seen one face whose ratio is exactly 0.3 and
\* shows Focused
C38_Witness ==
  /\ last.op = "tick" /\ last.pc = "faces"
  /\ last.faces = 1 /\ last.faceRatio = 30
  /\ ui.statusText = STATUS.FOCUSED

\* C39: a step in which a tick ends in its catch, a fetch of logEvent
\* rejects, or the server answers a logEvent request with an error, leaves
\* the interval timer and the page's session as they are.
C39_FailuresKeepTheLoop ==
  [][(\/ last'.op = "tick" /\ last'.pc = "catch"
      \/ last'.op = "LogOne" /\ last'.pc = "done" /\ last'.code # 201
      \/ /\ reqs' = reqs
         /\ \E m \in BagToSet(ui.outbox) :
              m.op = "LogOne" /\ CopiesIn(m, ui'.outbox) < CopiesIn(m, ui.outbox))
       => /\ ui'.timers = ui.timers
          /\ ui'.detectionInterval = ui.detectionInterval
          /\ ui'.sessionId = ui.sessionId]_vars

\* C39's case: the events of an ended session have failed to be delivered,
\* a tick has ended in its catch, and in the running session the timer has
\* just started the next tick
C39_Witness ==
  /\ Quiet /\ ui.clicks = MaxLoopClicks
  /\ ui.sessionId # NoId /\ ui.timers # {}
  /\ last.op = "tick" /\ last.pc = "start"
  /\ ui.started = MaxTicks /\ BagCardinality(ui.ticks) = 1
  /\ ui.events # <<>> /\ ui.events[1].message = "Detection error"

====
